---- MODULE Spec2Model ----
(***************************************************************************)
(* Model of the dashboard report export of                                 *)
(*   src/public/app/features/runtime/init.ts  (initWindowRuntime,          *)
(*   waitForData, toObject, getTextColor) and of the ShareReport dialog    *)
(*   (src/unnamed/part_001).                                               *)
(*                                                                         *)
(* JavaScript strings that the code indexes or matches (colours) are       *)
(* sequences of one-character strings; JavaScript values are tagged        *)
(* records, so that a conversion is never the identity.                    *)
(***************************************************************************)
EXTENDS Integers, Sequences, FiniteSets, TLC

VARIABLES
  \* getTextColor(backgroundColor)
  backgroundColor, textColor, colorPc,
  \* toObject(data): the argument, the loop index s, the sheet, the position
  data, s, results, sheetPc,
  \* waitForData: the promise, the subscription, the timer, and the events
  \* (emissions delivered, timer expiry) in the order they occurred
  promise, subscriber, timer, events,
  \* the dashboard, the download call in progress, the files handed to the
  \* user by it, and the ShareReport component
  d, call, saved, state, onDownloadPc

colorVars == <<backgroundColor, textColor, colorPc>>
sheetVars == <<data, s, results, sheetPc>>
waitVars == <<promise, subscriber, timer, events>>
downloadVars == <<d, call, saved, state, onDownloadPc>>
vars == <<colorVars, sheetVars, waitVars, downloadVars>>

(***************************************************************************)
(* JavaScript values                                                       *)
(***************************************************************************)
Undefined == [t |-> "undefined"]
Str(chars) == [t |-> "str", s |-> chars]
Num(n) == [t |-> "num", n |-> n]
NaN == [t |-> "nan"]
Bool(b) == [t |-> "bool", b |-> b]
\* a string the code never indexes (a type name, an alignment, a title)
Txt(w) == [t |-> "text", w |-> w]
Threw == [t |-> "TypeError"]

\* !v for the values a colour can take: undefined and '' are falsy
Falsy(v) == v = Undefined \/ v = Str(<<>>)

(***************************************************************************)
(* Natural numbers wider than 31 bits, as bit sequences, least significant *)
(* bit first, the last bit being 1 (zero is the empty sequence).           *)
(***************************************************************************)
RECURSIVE NatToBits(_)
NatToBits(n) == IF n = 0 THEN <<>> ELSE <<n % 2>> \o NatToBits(n \div 2)

RECURSIVE Trim(_)
Trim(b) == IF b = <<>> \/ b[Len(b)] = 1 THEN b ELSE Trim(SubSeq(b, 1, Len(b) - 1))

BitAt(b, i) == IF i >= 1 /\ i <= Len(b) THEN b[i] ELSE 0

RECURSIVE AddFrom(_, _, _, _)
AddFrom(a, b, i, c) ==
  IF i > Len(a) /\ i > Len(b)
  THEN NatToBits(c)
  ELSE LET t == BitAt(a, i) + BitAt(b, i) + c
       IN  <<t % 2>> \o AddFrom(a, b, i + 1, t \div 2)

AddBits(a, b) == AddFrom(a, b, 1, 0)

RECURSIVE MulFrom(_, _, _, _)
MulFrom(a, n, i, c) ==
  IF i > Len(a)
  THEN NatToBits(c)
  ELSE LET t == a[i] * n + c
       IN  <<t % 2>> \o MulFrom(a, n, i + 1, t \div 2)

MulBits(a, n) == Trim(MulFrom(a, n, 1, 0))

ShiftLeft(b, k) == IF b = <<>> THEN <<>> ELSE [i \in 1..k |-> 0] \o b

\* long division of the bits by a small n, most significant bit first:
\* acc is <<quotient bits so far, remainder so far>>
RECURSIVE DivFrom(_, _, _, _)
DivFrom(a, n, i, acc) ==
  IF i = 0
  THEN acc
  ELSE LET r2 == 2 * acc[2] + a[i]
       IN  IF r2 >= n
           THEN DivFrom(a, n, i - 1, <<<<1>> \o acc[1], r2 - n>>)
           ELSE DivFrom(a, n, i - 1, <<<<0>> \o acc[1], r2>>)

DivBits(a, n) == LET qr == DivFrom(a, n, Len(a), <<<<>>, 0>>) IN <<Trim(qr[1]), qr[2]>>

(***************************************************************************)
(* IEEE-754 binary64 (the JavaScript Number) for the non-negative finite   *)
(* values of the luminance formula: [m, e] is m * 2^e with m of at most    *)
(* MantissaBits bits.  Every operation rounds to nearest, ties to even.    *)
(***************************************************************************)
MantissaBits == 53

\* the exact value bits * 2^e (plus a non-zero part below the last bit when
\* sticky = 1) rounded to a binary64
Round53(bits, e, sticky) ==
  LET L    == Len(bits)
      drop == L - MantissaBits
  IN  IF drop <= 0
      THEN [m |-> bits, e |-> e]
      ELSE LET kept  == SubSeq(bits, drop + 1, L)
               guard == bits[drop]
               rest  == sticky = 1 \/ \E i \in 1..(drop - 1) : bits[i] = 1
               up    == guard = 1 /\ (rest \/ kept[1] = 1)
               sum   == IF up THEN AddBits(kept, <<1>>) ELSE kept
           IN  IF Len(sum) > MantissaBits
               THEN [m |-> SubSeq(sum, 2, Len(sum)), e |-> e + drop + 1]
               ELSE [m |-> sum, e |-> e + drop]

\* x * n for an integer 0 <= n <= 255
DMul(x, n) == Round53(MulBits(x.m, n), x.e, 0)

\* x + y
DAdd(x, y) ==
  IF x.m = <<>> THEN y
  ELSE IF y.m = <<>> THEN x
  ELSE LET e == IF x.e < y.e THEN x.e ELSE y.e
       IN  Round53(AddBits(ShiftLeft(x.m, x.e - e), ShiftLeft(y.m, y.e - e)), e, 0)

\* x / n for a small integer n: enough quotient bits for a correct rounding
GuardShift == 12

DDiv(x, n) ==
  LET qr == DivBits(ShiftLeft(x.m, GuardShift), n)
  IN  Round53(qr[1], x.e - GuardShift, IF qr[2] = 0 THEN 0 ELSE 1)

\* x > 0.5
DGreaterHalf(x) ==
  LET L == Len(x.m)
  IN  /\ L > 0
      /\ \/ L + x.e > 0
         \/ L + x.e = 0 /\ \E i \in 1..(L - 1) : x.m[i] = 1

(***************************************************************************)
(* Characters                                                              *)
(***************************************************************************)
HexDigits == <<"0", "1", "2", "3", "4", "5", "6", "7", "8", "9",
               "a", "b", "c", "d", "e", "f">>
UpperHex == <<"0", "1", "2", "3", "4", "5", "6", "7", "8", "9",
              "A", "B", "C", "D", "E", "F">>

IsHex(c) == \E i \in 1..16 : HexDigits[i] = c \/ UpperHex[i] = c
HexVal(c) == (CHOOSE i \in 1..16 : HexDigits[i] = c \/ UpperHex[i] = c) - 1

\* the binary64 nearest to a decimal literal, from the hexadecimal digits of
\* its significand (most significant first) and its exponent
RECURSIVE HexBits(_)
HexBits(h) ==
  IF h = <<>> THEN <<>>
  ELSE LET v == HexVal(h[Len(h)])
       IN  <<v % 2, (v \div 2) % 2, (v \div 4) % 2, v \div 8>>
             \o HexBits(SubSeq(h, 1, Len(h) - 1))

Double(h, e) == [m |-> Trim(HexBits(h)), e |-> e]

\* 0.299 = 0x1.322d0e5604189p-2, 0.587 = 0x1.2c8b439581062p-1,
\* 0.114 = 0x1.d2f1a9fbe76c9p-4
RedWeight   == Double(<<"1","3","2","2","d","0","e","5","6","0","4","1","8","9">>, -54)
GreenWeight == Double(<<"1","2","c","8","b","4","3","9","5","8","1","0","6","2">>, -53)
BlueWeight  == Double(<<"1","d","2","f","1","a","9","f","b","e","7","6","c","9">>, -56)

(***************************************************************************)
(* getTextColor                                                            *)
(***************************************************************************)
IsWhiteSpace(c) == c \in {" ", "\t"}
IsLineTerminator(c) == c \in {"\n", "\r"}

\* parseInt(<<c1, c2>>, 16) for a two-character string without a sign:
\* leading white space is skipped, an 0x prefix is stripped, the longest
\* prefix of hexadecimal digits is the number, NaN when there is none
ParseInt16(cs) ==
  LET c1 == cs[1]
      c2 == cs[2]
  IN  IF IsWhiteSpace(c1)
      THEN IF IsHex(c2) THEN Num(HexVal(c2)) ELSE NaN
      ELSE IF c1 = "0" /\ c2 \in {"x", "X"} THEN NaN
      ELSE IF ~IsHex(c1) THEN NaN
      ELSE IF IsHex(c2) THEN Num(16 * HexVal(c1) + HexVal(c2))
      ELSE Num(HexVal(c1))

\* backgroundColor.match(/^#(..)(..)(..)$/): the three groups, or null
MatchRgb(chars) ==
  IF /\ Len(chars) = 7
     /\ chars[1] = "#"
     /\ \A i \in 2..7 : ~IsLineTerminator(chars[i])
  THEN <<SubSeq(chars, 2, 3), SubSeq(chars, 4, 5), SubSeq(chars, 6, 7)>>
  ELSE <<>>

\* (0.299 * rInt + 0.587 * gInt + 0.114 * bInt) / 255 > 0.5
LuminanceAboveHalf(rInt, gInt, bInt) ==
  DGreaterHalf(DDiv(DAdd(DAdd(DMul(RedWeight, rInt), DMul(GreenWeight, gInt)),
                         DMul(BlueWeight, bInt)), 255))

Black == Str(<<"0", "0", "0", "0", "0", "0">>)
White == Str(<<"F", "F", "F", "F", "F", "F">>)

\* Expand 3-digit hex color to 6-digit format
Expand(chars) ==
  IF Len(chars) = 4
  THEN <<"#", chars[2], chars[2], chars[3], chars[3], chars[4], chars[4]>>
  ELSE chars

getTextColor(color) ==
  IF Falsy(color) THEN Undefined
  ELSE LET m == MatchRgb(Expand(color.s))
       IN  IF m = <<>> THEN Threw
           ELSE LET r == ParseInt16(m[1])
                    g == ParseInt16(m[2])
                    b == ParseInt16(m[3])
                IN  IF r = NaN \/ g = NaN \/ b = NaN THEN White
                    ELSE IF LuminanceAboveHalf(r.n, g.n, b.n) THEN Black
                    ELSE White

(***************************************************************************)
(* toObject: the sheet is a function from its keys to columns              *)
(***************************************************************************)
EmptySheet == [k \in {} |-> Undefined]

\* `${i}` for a 0-based index
KeyNames == <<"0", "1", "2", "3", "4", "5", "6", "7", "8", "9">>
Key(i) == KeyNames[i + 1]

\* results = {} inherits the properties of Object.prototype, all truthy
ObjectPrototype == {"constructor", "toString", "valueOf", "hasOwnProperty",
                    "isPrototypeOf", "propertyIsEnumerable", "toLocaleString",
                    "__proto__"}

\* results[name] is truthy
Present(sheet, name) == name \in DOMAIN sheet \/ name \in ObjectPrototype

\* results[key] = column
Put(sheet, key, column) ==
  [k \in DOMAIN sheet \cup {key} |-> IF k = key THEN column ELSE sheet[k]]

DefaultWidth == 150
FullDate == Txt("YYYY-MM-DD HH:mm:ss")
LinkColor == Str(<<"#", "3", "B", "5", "5", "8", "6">>)

\* a unit is undefined or [prefix, body]: includes('time:') is the prefix,
\* replace('time:', '') leaves the body
Unit(prefix, body) == [t |-> "unit", prefix |-> prefix, body |-> body]

ColumnFormat(field) ==
  IF field.type = "time"
  THEN IF field.config.unit # Undefined /\ field.config.unit.prefix = "time:"
       THEN Txt(field.config.unit.body)
       ELSE FullDate
  ELSE Undefined

\* the object literal of lines 345-353; reading custom.width of an undefined
\* custom is a TypeError
NewColumn(field) ==
  LET custom == field.config.custom
  IN  IF custom = Undefined THEN Threw
      ELSE [name   |-> field.name,
            data   |-> <<>>,
            type   |-> field.type,
            hidden |-> IF custom.hidden = Undefined THEN Bool(FALSE) ELSE custom.hidden,
            width  |-> IF custom.width = Undefined THEN Num(DefaultWidth) ELSE custom.width,
            align  |-> IF custom.align = Txt("auto") THEN Undefined ELSE custom.align,
            fmt    |-> ColumnFormat(field)]

\* the column loop of lines 328-355 from index i (0-based) on:
\* acc is [sheet, threw]
RECURSIVE Columns(_, _, _)
Columns(acc, fields, i) ==
  IF acc.threw \/ i >= Len(fields)
  THEN acc
  ELSE LET field == fields[i + 1]
       IN  IF Present(acc.sheet, field.name)
           THEN Columns(acc, fields, i + 1)
           ELSE IF NewColumn(field) = Threw
                THEN [sheet |-> acc.sheet, threw |-> TRUE]
                ELSE Columns([sheet |-> Put(acc.sheet, Key(i), NewColumn(field)),
                              threw |-> FALSE], fields, i + 1)

(***************************************************************************)
(* One cell (lines 362-409)                                                *)
(***************************************************************************)
ValueAt(field, i) == IF i + 1 <= Len(field.values) THEN field.values[i + 1] ELSE Undefined

\* fields[j].display?.(v): the display value of v, with the colour the
\* field's display processor gives
Display(field, v) ==
  IF field.display = Undefined
  THEN Undefined
  ELSE [text |-> [t |-> "formatted", of |-> v], color |-> field.display.color]

DisplayColor(diplay) == IF diplay = Undefined THEN Undefined ELSE diplay.color

\* new Date(v)
ToDate(v) == [t |-> "date", of |-> v]

DecimalDigits == <<"0", "1", "2", "3", "4", "5", "6", "7", "8", "9">>
IsDecimal(c) == \E i \in 1..10 : DecimalDigits[i] = c
DecimalVal(c) == (CHOOSE i \in 1..10 : DecimalDigits[i] = c) - 1

RECURSIVE DecimalOf(_, _)
DecimalOf(chars, n) ==
  IF chars = <<>> THEN n ELSE DecimalOf(Tail(chars), 10 * n + DecimalVal(Head(chars)))

\* Number(v)
ToNumber(v) ==
  CASE v.t = "num"  -> v
    [] v.t = "bool" -> Num(IF v.b THEN 1 ELSE 0)
    [] v.t = "str"  -> IF \A i \in 1..Len(v.s) : IsDecimal(v.s[i])
                       THEN Num(DecimalOf(v.s, 0))
                       ELSE NaN
    [] OTHER        -> NaN

\* Boolean(v)
ToBoolean(v) ==
  CASE v.t = "num"  -> Bool(v.n # 0)
    [] v.t = "bool" -> v
    [] v.t = "str"  -> Bool(v.s # <<>>)
    [] v.t = "undefined" -> Bool(FALSE)
    [] v.t = "nan"  -> Bool(FALSE)
    [] OTHER        -> Bool(TRUE)

\* the four type tests of lines 373-387 on value: undefined
CellValue(field, v, diplay) ==
  CASE field.type = "time"    -> ToDate(v)
    [] field.type = "number"  -> ToNumber(v)
    [] field.type = "boolean" -> ToBoolean(v)
    [] field.type = "string"  -> IF diplay # Undefined THEN diplay.text ELSE v
    [] OTHER                  -> Undefined

\* fields[j].config.custom?.cellOptions?.type
CellOptionsType(field) ==
  IF field.config.custom = Undefined THEN Undefined ELSE field.config.custom.cellOptions

\* the switch of lines 389-397: <<color, background>>, color being Threw when
\* getTextColor throws
Coloured(mode, diplay) ==
  IF mode = Txt("color-text")
  THEN <<DisplayColor(diplay), Undefined>>
  ELSE IF mode = Txt("color-background")
       THEN <<getTextColor(DisplayColor(diplay)), DisplayColor(diplay)>>
       ELSE <<Undefined, Undefined>>

\* a variant that keeps a colour the switch has set
WithLinksKeepingColour(cell, links) ==
  IF Len(links) > 0
  THEN [cell EXCEPT !.link = [title |-> links[1].title, href |-> links[1].href],
                    !.color = IF @ = Undefined THEN LinkColor ELSE @]
  ELSE cell

\* lines 401-409: the first link, and the link colour over whatever was set
WithLinks(cell, links) ==
  IF Len(links) > 0
  THEN [cell EXCEPT !.link = [title |-> links[1].title, href |-> links[1].href],
                    !.color = LinkColor]
  ELSE cell

\* fields[j].getLinks?.({ valueRowIndex: i }) ?? []
Links(field, i) == field.links

\* the cell of row i (0-based) of a field, or Threw
Cell(field, i) ==
  LET v      == ValueAt(field, i)
      diplay == Display(field, v)
      cb     == Coloured(CellOptionsType(field), diplay)
  IN  IF cb[1] = Threw THEN Threw
      ELSE WithLinks([value      |-> CellValue(field, v, diplay),
                      link       |-> Undefined,
                      color      |-> cb[1],
                      background |-> cb[2]],
                     Links(field, i))

\* the row loops of lines 360-413 from cell k on, k counting the cells row by
\* row; results[`${j}`].data.push throws when the sheet has no column j
RECURSIVE Rows(_, _, _, _)
Rows(acc, fields, length, k) ==
  IF acc.threw \/ k >= length * Len(fields)
  THEN acc
  ELSE LET i == k \div Len(fields)
           j == k % Len(fields)
           c == Cell(fields[j + 1], i)
       IN  IF c = Threw \/ Key(j) \notin DOMAIN acc.sheet
           THEN [sheet |-> acc.sheet, threw |-> TRUE]
           ELSE Rows([sheet |-> [acc.sheet EXCEPT ![Key(j)].data = Append(@, c)],
                      threw |-> FALSE], fields, length, k + 1)

\* a loop body that gives a table without fields a placeholder column
SeriesWithPlaceholder(sheet, series) ==
  LET fields == series.fields
  IN  IF Len(fields) = 0
      THEN [sheet |-> Put(sheet, Key(0),
                          [name |-> "", data |-> <<>>, type |-> "other",
                           hidden |-> Bool(FALSE), width |-> Num(DefaultWidth),
                           align |-> Undefined, fmt |-> Undefined]),
            threw |-> FALSE]
      ELSE Rows(Columns([sheet |-> sheet, threw |-> FALSE], fields, 0),
                fields, Len(fields[1].values), 0)

\* one iteration of the loop over data (lines 319-415)
Series(sheet, series) ==
  LET fields == series.fields
  IN  IF Len(fields) = 0
      THEN [sheet |-> sheet, threw |-> FALSE]
      ELSE Rows(Columns([sheet |-> sheet, threw |-> FALSE], fields, 0),
                fields, Len(fields[1].values), 0)

(***************************************************************************)
(* Inputs of getTextColor                                                  *)
(***************************************************************************)
HexPool == {"0", "7", "8", "f", "F"}
BytePool == {<<"0", "0">>, <<"7", "f">>, <<"8", "0">>, <<"F", "F">>, <<"f", "f">>,
             <<"D", "A">>, <<"3", "A">>, <<"F", "8">>}

ShortColours == {Str(<<"#", a, b, c>>) : a \in HexPool, b \in HexPool, c \in HexPool}
LongColours == {Str(<<"#">> \o r \o g \o b) : r \in BytePool, g \in BytePool, b \in BytePool}

\* colours that are no #RGB or #RRGGBB
Malformed == {Str(<<"r", "e", "d">>),
              Str(<<"#", "1", "2", "3", "4", "5">>),
              Str(<<"#", "f", "f", "f", "f", "f", "f", "8", "0">>),
              Str(<<"#", "g", "g", "g">>),
              Str(<<"#", "1", "2", "\n", "4", "5", "6">>),
              Str(<<"1", "2", "3", "4", "5", "6", "7">>),
              Str(<<"#", "0", "x", " ", "8", "z", "9">>)}

ColourInputs == {Undefined, Str(<<>>)} \cup ShortColours \cup LongColours \cup Malformed

(***************************************************************************)
(* Inputs of toObject                                                      *)
(***************************************************************************)
MaxTables == 2
MaxFields == 2
MaxRows == 1

\* the raw value of row i (1-based) of a field of a type
SampleValue(type, i) ==
  CASE type = "time"    -> Num(1000 * i)
    [] type = "number"  -> IF i % 2 = 1 THEN Num(i) ELSE Str(<<DecimalDigits[i + 1]>>)
    [] type = "boolean" -> Bool(i % 2 = 1)
    [] type = "string"  -> Str(<<"r", DecimalDigits[i + 1]>>)
    [] OTHER            -> [t |-> "geo", row |-> i]

Custom(hidden, width, align, cellOptions) ==
  [hidden |-> hidden, width |-> width, align |-> align, cellOptions |-> cellOptions]

\* a field without its values
Proto(name, type, unit, custom, display, links) ==
  [name |-> name, type |-> type, config |-> [unit |-> unit, custom |-> custom],
   display |-> display, links |-> links]

WithValues(proto, rows) ==
  [name |-> proto.name, type |-> proto.type, config |-> proto.config,
   display |-> proto.display, links |-> proto.links,
   values |-> [i \in 1..rows |-> SampleValue(proto.type, i)]]

\* a table of `rows` rows from field prototypes
Table(protos, rows) == [fields |-> [j \in 1..Len(protos) |-> WithValues(protos[j], rows)]]

SeqsUpTo(S, n) == UNION {[1..k -> S] : k \in 0..n}

FieldTypes == {"time", "number", "boolean", "string", "other"}

Link1 == [title |-> Txt("first"), href |-> Txt("http://a")]
Link2 == [title |-> Txt("second"), href |-> Txt("http://b")]

\* fields that differ in name and column metadata
FieldA == Proto("A", "string", Undefined,
                Custom(Undefined, Undefined, Txt("auto"), Undefined), Undefined, <<>>)
FieldB == Proto("B", "number", Unit("", "short"),
                Custom(Bool(TRUE), Num(80), Txt("right"), Txt("auto")), Undefined, <<>>)
FieldT == Proto("T", "time", Unit("time:", "YYYY-MM-DD"),
                Custom(Bool(FALSE), Undefined, Txt("left"), Undefined), Undefined, <<>>)
FieldNoCustom == Proto("N", "string", Undefined, Undefined, Undefined, <<>>)
\* fields whose display names are positional keys
Field0 == Proto("0", "string", Undefined,
                Custom(Undefined, Undefined, Txt("auto"), Undefined), Undefined, <<>>)
Field1 == Proto("1", "number", Undefined,
                Custom(Undefined, Num(80), Txt("right"), Undefined), Undefined, <<>>)

SheetFields == {FieldA, FieldB, FieldT}
KeyFields == {FieldA, Field0, Field1}

TablesOf(pool) == {Table(fs, r) : fs \in SeqsUpTo(pool, MaxFields), r \in 0..MaxRows}
SheetInputs == SeqsUpTo(TablesOf(SheetFields), MaxTables)
\* the display names of the fields of one table differ
UniqueNames(table) ==
  \A i, j \in 1..Len(table.fields) :
    table.fields[i].name = table.fields[j].name => i = j
KeyInputs == SeqsUpTo({table \in TablesOf(KeyFields) : UniqueNames(table)}, MaxTables)

\* tables around a table without fields
Alternating(first, second, n) == [j \in 1..n |-> IF j % 2 = 1 THEN first ELSE second]
SkipTables ==
  {Table(Alternating(pair[1], pair[2], n), r) :
     pair \in {<<FieldA, FieldB>>, <<FieldB, FieldA>>}, n \in 0..MaxFields, r \in 0..MaxRows}
NoFields == Table(<<>>, 0)
InsertAt(tables, k, table) ==
  SubSeq(tables, 1, k) \o <<table>> \o SubSeq(tables, k + 1, Len(tables))
SkipInputs ==
  UNION {{InsertAt(tables, k, NoFields) : k \in 0..Len(tables)} :
           tables \in SeqsUpTo(SkipTables, MaxTables)}

\* fields that differ in what decides a cell
Displays == {Undefined, [color |-> Undefined]}
              \cup {[color |-> c] : c \in {Str(<<"#", "f", "f", "f">>),
                                          Str(<<"#", "0", "0", "0", "0", "0", "0">>),
                                          Str(<<"r", "e", "d">>),
                                          Str(<<"#", "g", "g", "g">>)}}
CellModes == {Undefined, Txt("auto"), Txt("color-text"), Txt("color-background")}
LinkLists == {<<>>, <<Link1>>, <<Link2, Link1>>}

CellFields ==
  {Proto("V", type, Undefined, Custom(Undefined, Undefined, Txt("center"), mode), dv, l) :
     type \in FieldTypes, mode \in CellModes, dv \in Displays, l \in LinkLists}

Neighbours == {FieldA, FieldNoCustom}

\* one field of CellFields among at most MaxFields - 1 neighbours
CellTables ==
  {Table(before \o <<f>> \o after, r) :
     f \in CellFields, r \in 0..MaxRows,
     before \in SeqsUpTo(Neighbours, MaxFields - 1),
     after \in SeqsUpTo(Neighbours, MaxFields - 1)}

CellInputs == {<<t>> : t \in {c \in CellTables : Len(c.fields) <= MaxFields}}

(***************************************************************************)
(* waitForData (lines 248-286)                                             *)
(***************************************************************************)
MaxEmissions == 3
MaxPayload == 2

Pending == [state |-> "pending", value |-> Undefined]

\* resolve(v) and reject(e) of the promise: the first call settles it
Resolve(p, v) == IF p.state = "pending" THEN [state |-> "resolved", value |-> v] ELSE p
\* a variant that lets a later rejection replace the outcome
RejectOverwriting(p, e) == [state |-> "rejected", value |-> e]
Reject(p, e) == IF p.state = "pending" THEN [state |-> "rejected", value |-> e] ELSE p

TimeoutMessage == Txt("Timeout exceeded, no data received")

\* what the query runner emits: a state, with the series or the errors
Emissions ==
  {[state |-> "Loading"], [state |-> "Streaming"]}
    \cup {[state |-> "Done", series |-> [t |-> "series", id |-> n]] : n \in 1..MaxPayload}
    \cup {[state |-> "Error", errors |-> [t |-> "errors", id |-> n]] : n \in 1..MaxPayload}

\* the callback of subscribe (lines 257-265)
OnNext(p, next) ==
  IF next.state = "Done" THEN Resolve(p, next.series)
  ELSE IF next.state = "Error" THEN Reject(p, next.errors)
  ELSE p

\* takeWhile((next) => next.state !== LoadingState.Done, true): the emission
\* that fails the test is passed on and completes the subscription
AfterTakeWhile(next) == IF next.state # "Done" THEN "active" ELSE "complete"

(***************************************************************************)
(* The downloads (lines 81-244) and ShareReport                            *)
(***************************************************************************)
MaxPanels == 2
MaxIds == 2

PanelIds == 1..MaxPanels
PanelTypes == {"table", "graph"}

Distinct(seq) == \A i \in 1..Len(seq) : \A j \in 1..Len(seq) : seq[i] = seq[j] => i = j

\* getDashboardSrv().getCurrent(): no dashboard, or its panels
PanelLists(ids) ==
  {[k \in 1..Len(ids) |-> [id |-> ids[k], type |-> types[k]]] :
     types \in [1..Len(ids) -> PanelTypes]}

Dashboards ==
  {[open |-> FALSE, panels |-> <<>>]}
    \cup {[open |-> TRUE, panels |-> ps] :
            ps \in UNION {PanelLists(ids) :
                            ids \in {q \in SeqsUpTo(PanelIds, MaxPanels) : Distinct(q)}}}

Includes(ids, id) == \E k \in 1..Len(ids) : ids[k] = id

\* ids.length ? d.panels.filter((p) => ids.includes(p.id)) : d.panels
Filtered(panels, ids) ==
  IF Len(ids) > 0 THEN SelectSeq(panels, LAMBDA p : Includes(ids, p.id)) ELSE panels

\* const panel = d.panels[i]
PanelOfIteration(i) == d.panels[i + 1]

Idle == [pc |-> "idle", kind |-> "none", ids |-> <<>>, i |-> 0, written |-> <<>>,
         caller |-> "none"]

\* the synchronous start of downloadCsv, downloadZip, downloadXlsx: without a
\* dashboard the call returns undefined at once
Start(kind, ids, caller) ==
  /\ call' = [pc |-> IF d.open THEN "loop" ELSE "resolved", kind |-> kind, ids |-> ids,
              i |-> 0, written |-> <<>>, caller |-> caller]
  /\ saved' = <<>>

\* the download the dialog asks for (part_001 lines 37-45)
KindOf(st) == IF st.reportType = "csv" THEN (IF st.zipped THEN "zip" ELSE "csv") ELSE "xlsx"

(***************************************************************************)
(* Actions                                                                 *)
(***************************************************************************)
ColorIdle == backgroundColor = Undefined /\ textColor = Undefined /\ colorPc = "idle"
SheetIdle == data = <<>> /\ s = 0 /\ results = EmptySheet /\ sheetPc = "idle"
WaitIdle == promise = Pending /\ subscriber = "none" /\ timer = "none" /\ events = <<>>
DownloadIdle ==
  /\ d = [open |-> FALSE, panels |-> <<>>] /\ call = Idle /\ saved = <<>>
  /\ state = [reportType |-> "csv", zipped |-> FALSE, loading |-> FALSE]
  /\ onDownloadPc = "idle"

\* getTextColor(backgroundColor)
GetTextColor ==
  /\ colorPc = "call"
  /\ textColor' = getTextColor(backgroundColor)
  /\ colorPc' = IF getTextColor(backgroundColor) = Threw THEN "threw" ELSE "returned"
  /\ UNCHANGED <<backgroundColor, sheetVars, waitVars, downloadVars>>

ColorInit == backgroundColor \in ColourInputs /\ textColor = Undefined /\ colorPc = "call"
               /\ SheetIdle /\ WaitIdle /\ DownloadIdle
ColorNext == GetTextColor
ColorSpec == ColorInit /\ [][ColorNext]_vars

\* for (let s = 0; s < data.length; s++) { ... }
ProcessSeries ==
  /\ sheetPc = "loop"
  /\ s < Len(data)
  /\ LET r == Series(results, data[s + 1])
     IN  /\ results' = r.sheet
         /\ sheetPc' = IF r.threw THEN "threw" ELSE "loop"
         /\ s' = IF r.threw THEN s ELSE s + 1
  /\ UNCHANGED <<data, colorVars, waitVars, downloadVars>>

\* return results
Return ==
  /\ sheetPc = "loop"
  /\ s = Len(data)
  /\ sheetPc' = "returned"
  /\ UNCHANGED <<data, s, results, colorVars, waitVars, downloadVars>>

SheetNext == ProcessSeries \/ Return

SheetInit == data \in SheetInputs /\ s = 0 /\ results = EmptySheet /\ sheetPc = "loop"
               /\ ColorIdle /\ WaitIdle /\ DownloadIdle
SheetSpec == SheetInit /\ [][SheetNext]_vars

KeyInit == data \in KeyInputs /\ s = 0 /\ results = EmptySheet /\ sheetPc = "loop"
             /\ ColorIdle /\ WaitIdle /\ DownloadIdle
KeySpec == KeyInit /\ [][SheetNext]_vars

SkipInit == data \in SkipInputs /\ s = 0 /\ results = EmptySheet /\ sheetPc = "loop"
              /\ ColorIdle /\ WaitIdle /\ DownloadIdle
SkipSpec == SkipInit /\ [][SheetNext]_vars

CellInit == data \in CellInputs /\ s = 0 /\ results = EmptySheet /\ sheetPc = "loop"
              /\ ColorIdle /\ WaitIdle /\ DownloadIdle
CellSpec == CellInit /\ [][SheetNext]_vars

\* the query runner emits and the subscription passes the emission on
Emit ==
  /\ subscriber = "active"
  /\ Len(SelectSeq(events, LAMBDA e : e.state # "Timeout")) < MaxEmissions
  /\ \E next \in Emissions :
       /\ promise' = OnNext(promise, next)
       /\ subscriber' = AfterTakeWhile(next)
       /\ events' = Append(events, next)
  /\ UNCHANGED <<timer, colorVars, sheetVars, downloadVars>>

\* the callback of setTimeout (lines 267-273)
Timeout ==
  /\ timer = "armed"
  /\ timer' = "fired"
  /\ subscriber' = IF subscriber = "active" THEN "unsubscribed" ELSE subscriber
  /\ promise' = Reject(promise, TimeoutMessage)
  /\ events' = Append(events, [state |-> "Timeout"])
  /\ UNCHANGED <<colorVars, sheetVars, downloadVars>>

WaitInit == promise = Pending /\ subscriber = "active" /\ timer = "armed" /\ events = <<>>
              /\ ColorIdle /\ SheetIdle /\ DownloadIdle
WaitNext == Emit \/ Timeout
\* the event loop runs the callback of an armed timer
WaitSpec == WaitInit /\ [][WaitNext]_vars /\ WF_vars(Timeout)

\* window.grafanaRuntime.downloadCsv / downloadZip / downloadXlsx (...ids),
\* called by an external driver
DriverCall ==
  /\ call.pc = "idle"
  /\ \E kind \in {"csv", "zip", "xlsx"} : \E ids \in SeqsUpTo(PanelIds, MaxIds) :
       Start(kind, ids, "driver")
  /\ UNCHANGED <<d, state, onDownloadPc, colorVars, sheetVars, waitVars>>

\* ShareReport.onDownload up to its await; the button is disabled while loading
OnDownload ==
  /\ ~state.loading
  /\ onDownloadPc = "idle"
  /\ call.pc = "idle"
  /\ state' = [state EXCEPT !.loading = TRUE]
  /\ Start(KindOf(state), <<>>, "ui")
  /\ onDownloadPc' = "await"
  /\ UNCHANGED <<d, colorVars, sheetVars, waitVars>>

\* one iteration of the loop over panels whose awaits resolve: the panel's
\* data (or image) is acquired and written
PanelDone ==
  /\ call.pc = "loop"
  /\ call.i < Len(Filtered(d.panels, call.ids))
  /\ call' = [call EXCEPT !.i = @ + 1, !.written = Append(@, PanelOfIteration(call.i).id)]
  /\ saved' = IF call.kind = "csv"
              THEN Append(saved, [file |-> "csv", of |-> <<PanelOfIteration(call.i).id>>])
              ELSE saved
  /\ UNCHANGED <<d, state, onDownloadPc, colorVars, sheetVars, waitVars>>

\* one iteration whose await rejects (waitForData, imageResponseToBase64) or
\* whose toObject throws: the call rejects; downloadXlsx has added the
\* worksheet before it awaits
PanelFails ==
  /\ call.pc = "loop"
  /\ call.i < Len(Filtered(d.panels, call.ids))
  /\ call' = [call EXCEPT !.pc = "rejected",
                          !.written = IF call.kind = "xlsx"
                                      THEN Append(@, PanelOfIteration(call.i).id)
                                      ELSE @]
  /\ UNCHANGED <<d, saved, state, onDownloadPc, colorVars, sheetVars, waitVars>>

\* after the loop: saveAs of the zip or the workbook, and the call resolves
Finish ==
  /\ call.pc = "loop"
  /\ call.i = Len(Filtered(d.panels, call.ids))
  /\ call' = [call EXCEPT !.pc = "resolved"]
  /\ saved' = IF call.kind = "csv"
              THEN saved
              ELSE Append(saved, [file |-> call.kind, of |-> call.written])
  /\ UNCHANGED <<d, state, onDownloadPc, colorVars, sheetVars, waitVars>>

\* the driver has its answer
DriverSettled ==
  /\ call.pc \in {"resolved", "rejected"}
  /\ call.caller = "driver"
  /\ call' = Idle
  /\ UNCHANGED <<d, saved, state, onDownloadPc, colorVars, sheetVars, waitVars>>

\* onDownload after its await resolved (part_001 line 46)
OnDownloadResumes ==
  /\ onDownloadPc = "await"
  /\ call.pc = "resolved"
  /\ call.caller = "ui"
  /\ state' = [state EXCEPT !.loading = FALSE]
  /\ onDownloadPc' = "idle"
  /\ call' = Idle
  /\ UNCHANGED <<d, saved, colorVars, sheetVars, waitVars>>

\* onDownload when its await rejected: the exception leaves the function
OnDownloadThrows ==
  /\ onDownloadPc = "await"
  /\ call.pc = "rejected"
  /\ call.caller = "ui"
  /\ onDownloadPc' = "idle"
  /\ call' = Idle
  /\ UNCHANGED <<d, saved, state, colorVars, sheetVars, waitVars>>

\* ShareReport.onChangeZipped
OnChangeZipped ==
  /\ state' = [state EXCEPT !.zipped = ~state.zipped]
  /\ UNCHANGED <<d, call, saved, onDownloadPc, colorVars, sheetVars, waitVars>>

\* onChange of the report type radio buttons (part_001 line 71)
OnChangeReportType ==
  /\ \E value \in {"csv", "xlsx"} : state' = [state EXCEPT !.reportType = value]
  /\ UNCHANGED <<d, call, saved, onDownloadPc, colorVars, sheetVars, waitVars>>

Init ==
  /\ d \in Dashboards
  /\ call = Idle
  /\ saved = <<>>
  /\ state = [reportType |-> "csv", zipped |-> FALSE, loading |-> FALSE]
  /\ onDownloadPc = "idle"
  /\ ColorIdle /\ SheetIdle /\ WaitIdle

Next ==
  \/ DriverCall \/ OnDownload \/ PanelDone \/ PanelFails \/ Finish
  \/ DriverSettled \/ OnDownloadResumes \/ OnDownloadThrows
  \/ OnChangeZipped \/ OnChangeReportType

Spec == Init /\ [][Next]_vars

(***************************************************************************)
(* What the claims speak of                                                *)
(***************************************************************************)
\* #RGB or #RRGGBB with hexadecimal digits
WellFormed(color) ==
  /\ color.t = "str"
  /\ Len(color.s) \in {4, 7}
  /\ color.s[1] = "#"
  /\ \A i \in 2..Len(color.s) : IsHex(color.s[i])

Channel(chars, k) == 16 * HexVal(chars[2 * k]) + HexVal(chars[2 * k + 1])

\* black when 299R + 587G + 114B > 127500, white otherwise
ByLuminance(color) ==
  LET c == Expand(color.s)
  IN  IF 299 * Channel(c, 1) + 587 * Channel(c, 2) + 114 * Channel(c, 3) > 127500
      THEN Black
      ELSE White

RowCount(series) == IF Len(series.fields) = 0 THEN 0 ELSE Len(series.fields[1].values)

RECURSIVE MaxFieldCount(_)
MaxFieldCount(tables) ==
  IF tables = <<>> THEN 0
  ELSE LET rest == MaxFieldCount(Tail(tables))
           n    == Len(Head(tables).fields)
       IN  IF n > rest THEN n ELSE rest

\* the rows of the tables that have a field at position p (0-based)
RECURSIVE RowsAt(_, _)
RowsAt(tables, p) ==
  IF tables = <<>> THEN 0
  ELSE (IF Len(Head(tables).fields) > p THEN RowCount(Head(tables)) ELSE 0)
         + RowsAt(Tail(tables), p)

\* the field at position p of the first table that has one
RECURSIVE FirstFieldAt(_, _)
FirstFieldAt(tables, p) ==
  IF Len(Head(tables).fields) > p
  THEN Head(tables).fields[p + 1]
  ELSE FirstFieldAt(Tail(tables), p)

Meta(column) ==
  [name |-> column.name, type |-> column.type, hidden |-> column.hidden,
   width |-> column.width, align |-> column.align, fmt |-> column.fmt]

\* the tables processed so far have left a sheet
Processed == sheetPc \in {"loop", "returned"}
Done(n) == SubSeq(data, 1, n)

\* the cell that the table processed last appended for row i of its field j
LastCell(j, i) ==
  LET column == results[Key(j)].data
  IN  column[Len(column) - RowCount(data[s]) + i + 1]

\* C1 (as claimed): with no table of zero fields, the returned sheet has as
\* many columns as the widest table has fields, and column p holds one cell
\* for every row of every table that has a field at position p.
C1_ColumnsAndRowsAddUp ==
  (sheetPc = "returned" /\ \A k \in 1..Len(data) : Len(data[k].fields) > 0)
    => /\ Cardinality(DOMAIN results) = MaxFieldCount(data)
       /\ \A p \in 0..(MaxFieldCount(data) - 1) :
            /\ Key(p) \in DOMAIN results
            /\ Len(results[Key(p)].data) = RowsAt(data, p)

\* C2 (as claimed): the metadata stored for position p is that of the field
\* at p in the first table that has one; later tables leave it alone.
C2_MetadataFromFirstTable ==
  Processed =>
    \A p \in 0..(MaxFieldCount(Done(s)) - 1) :
      Key(p) \in DOMAIN results
        => Meta(results[Key(p)]) = Meta(NewColumn(FirstFieldAt(Done(s), p)))

\* a table was processed last and its cells are in the sheet
HasLast == Processed /\ s >= 1 /\ Len(data[s].fields) > 0

\* C7 (as claimed): a cell of a field whose type is none of time, number,
\* boolean, string carries the raw value of its row.
C7_OtherTypesKeepRawValue ==
  HasLast =>
    \A j \in 0..(Len(data[s].fields) - 1) : \A i \in 0..(RowCount(data[s]) - 1) :
      data[s].fields[j + 1].type \notin {"time", "number", "boolean", "string"}
        => LastCell(j, i).value = ValueAt(data[s].fields[j + 1], i)

\* a field colours the background with a colour that is no #RGB or #RRGGBB
BadBackground(field) ==
  /\ CellOptionsType(field) = Txt("color-background")
  /\ field.display # Undefined
  /\ ~Falsy(field.display.color)
  /\ ~WellFormed(field.display.color)

\* nothing but a colour can make toObject throw on these tables
OnlyColourCanThrow ==
  \A k \in 1..Len(data) : \A j \in 1..Len(data[k].fields) :
    /\ data[k].fields[j].config.custom # Undefined
    /\ ~Present(EmptySheet, data[k].fields[j].name)
    /\ \A n \in 1..10 : data[k].fields[j].name # KeyNames[n]

\* C8 (as claimed): a malformed background colour does not abort toObject;
\* the cell gets no computed foreground colour and the sheet is produced.
C8_MalformedColourIsContained ==
  /\ OnlyColourCanThrow => sheetPc # "threw"
  /\ HasLast =>
       \A j \in 0..(Len(data[s].fields) - 1) : \A i \in 0..(RowCount(data[s]) - 1) :
         (BadBackground(data[s].fields[j + 1]) /\ Links(data[s].fields[j + 1], i) = <<>>)
           => LastCell(j, i).color = Undefined

\* C9: a cell whose link resolver returns a link carries the first link and
\* the link colour, whatever the cell-colouring mode and the displayed colour;
\* with color-background its background is still the displayed colour.
C9_LinkColourWins ==
  HasLast =>
    \A j \in 0..(Len(data[s].fields) - 1) : \A i \in 0..(RowCount(data[s]) - 1) :
      LET field == data[s].fields[j + 1]
          links == Links(field, i)
      IN  Len(links) > 0 =>
            /\ LastCell(j, i).link = [title |-> links[1].title, href |-> links[1].href]
            /\ LastCell(j, i).color = LinkColor
            /\ CellOptionsType(field) = Txt("color-background")
                 => LastCell(j, i).background
                      = DisplayColor(Display(field, ValueAt(field, i)))

\* C9 witness: a returned sheet with a linked cell of a color-background field
\* whose displayed colour #000000 would have given a white text
C9_Witness ==
  /\ sheetPc = "returned" /\ HasLast /\ RowCount(data[s]) > 0
  /\ \E j \in 0..(Len(data[s].fields) - 1) :
       /\ CellOptionsType(data[s].fields[j + 1]) = Txt("color-background")
       /\ data[s].fields[j + 1].display = [color |-> Str(<<"#", "0", "0", "0", "0", "0", "0">>)]
       /\ Len(data[s].fields[j + 1].links) = 2
       /\ LastCell(j, 0).color = LinkColor
       /\ LastCell(j, 0).background = Str(<<"#", "0", "0", "0", "0", "0", "0">>)

\* the sheet that the loop body builds from a sheet over tables
RECURSIVE SheetOf(_, _)
SheetOf(sheet, tables) ==
  IF tables = <<>> THEN sheet
  ELSE SheetOf(Series(sheet, Head(tables)).sheet, Tail(tables))

\* the tables that have a field
WithFields(tables) == SelectSeq(tables, LAMBDA table : Len(table.fields) > 0)

\* C11: a table with zero fields leaves the sheet built so far unchanged: after
\* any number of tables the sheet is, key for key and cell for cell, the sheet
\* built from the same tables with the zero-field tables left out.
C11_ZeroFieldTableIsSkipped ==
  Processed => results = SheetOf(EmptySheet, WithFields(Done(s)))

\* C11 witness: a returned sheet of three tables, the middle one without
\* fields, the first and the last with a row each
C11_Witness ==
  /\ sheetPc = "returned"
  /\ Len(data) = 3
  /\ Len(data[2].fields) = 0
  /\ RowCount(data[1]) > 0
  /\ RowCount(data[3]) > 0
  /\ Len(data[1].fields) > Len(data[3].fields)
  /\ \A p \in 0..(Len(data[1].fields) - 1) : Key(p) \in DOMAIN results

\* the table that the loop takes next has a field and a row
NextHasCells == sheetPc = "loop" /\ s < Len(data) /\ RowCount(data[s + 1]) > 0

\* C12 (as claimed): for a table with at least one field and one row, whatever
\* the display names of its fields, the sheet has a column at every positional
\* key of the table's fields once its columns are set up and before its
\* cells are appended; so appending a cell never targets a missing column.
C12_ColumnAtEveryKey ==
  /\ NextHasCells =>
       LET fields == data[s + 1].fields
           ready  == Columns([sheet |-> results, threw |-> FALSE], fields, 0)
       IN  \A j \in 0..(Len(fields) - 1) : Key(j) \in DOMAIN ready.sheet
  /\ sheetPc # "threw"

\* C10 (as claimed): a well-formed colour gives black when
\* 299R + 587G + 114B > 127500 and white otherwise; no colour gives no result.
C10_BlackAboveHalfLuminance ==
  colorPc # "call" =>
    /\ WellFormed(backgroundColor)
         => colorPc = "returned" /\ textColor = ByLuminance(backgroundColor)
    /\ Falsy(backgroundColor) => colorPc = "returned" /\ textColor = Undefined

\* the ids of the dashboard's panels that the call selects, in dashboard order
SelectedIds ==
  [k \in 1..Len(Filtered(d.panels, call.ids)) |-> Filtered(d.panels, call.ids)[k].id]

\* C3 (as claimed): a download that has run to its end has acquired and
\* written exactly the dashboard panels whose id is in ids, in dashboard
\* order, and every panel when no id is given.
C3_SelectedPanelsExported ==
  (call.pc = "resolved" /\ d.open) => call.written = SelectedIds

\* C4 (as claimed): a download that rejects has handed no file to the user.
C4_NoFileWhenRejected ==
  call.pc = "rejected" => saved = <<>>

\* the events that settle the wait
Terminal(e) == e.state \in {"Done", "Error", "Timeout"}

FirstTerminal ==
  LET at == {k \in 1..Len(events) : Terminal(events[k])}
  IN  IF at = {} THEN 0 ELSE CHOOSE k \in at : \A m \in at : k <= m

OutcomeOf(e) ==
  CASE e.state = "Done"    -> [state |-> "resolved", value |-> e.series]
    [] e.state = "Error"   -> [state |-> "rejected", value |-> e.errors]
    [] e.state = "Timeout" -> [state |-> "rejected", value |-> TimeoutMessage]

SettledByFirst ==
  IF FirstTerminal = 0
  THEN promise = Pending
  ELSE /\ promise = OutcomeOf(events[FirstTerminal])
       /\ events[FirstTerminal].state = "Timeout" => subscriber = "unsubscribed"

\* C5: the wait settles once, with the first Done emission (resolved with its
\* series), Error emission (rejected with its errors) or timer expiry
\* (unsubscribed, rejected with the timeout message); nothing later changes
\* the outcome; and it settles eventually.
C5_SettlesOnceWithFirstEvent ==
  /\ []SettledByFirst
  /\ [][promise.state # "pending" => promise' = promise]_vars
  /\ <>(promise.state # "pending")

\* C5 witness: an Error emission, then a Done emission, then the timer: the
\* promise still carries the errors of the first
C5_Witness ==
  /\ Len(events) >= 3
  /\ events[1].state = "Error"
  /\ \E k \in 2..Len(events) : events[k].state = "Done"
  /\ events[Len(events)].state = "Timeout"
  /\ promise = [state |-> "rejected", value |-> events[1].errors]

\* C6 (as claimed): loading is true while the export of onDownload runs and
\* false again once it has ended, resolved or rejected.
C6_LoadingResetWhenExportEnds ==
  /\ onDownloadPc = "await" => state.loading
  /\ onDownloadPc = "idle" => ~state.loading

====
